---- MODULE Spec2Model ----
(***************************************************************************)
(* State-graph construction for the bridge-and-torch puzzle (src/main.cpp).*)
(*                                                                         *)
(* A configuration (bridge_state_type::state_repr) is an unsigned word of  *)
(* int_value_type_bit_count bits.  A word is modelled as the set of the    *)
(* positions of its 1 bits, so that the word keeps its width: bit 0 is the *)
(* torch, bits 1..N the people, bit N+1 the leading one.                   *)
(* Node and person indices are 0-based as in the source; the TLA+          *)
(* sequences holding them are 1-based, hence the "+ 1" at each access.     *)
(***************************************************************************)
EXTENDS Integers, Sequences, FiniteSets, TLC

\* ---------------------------------------------------------------- bounds
\* Largest person count for which every list of crossing times is explored.
MaxPeople == 3

\* Crossing times the explored lists are built from.
TimeValues == {1, 10, 100}

\* Largest person count for which every configuration is given to the
\* operations of bridge_state_type (next to those of max_people people).
MaxCodecPeople == 3

\* Number of calls made in a row on a configuration.
MaxCodecCalls == 2

\* The list of crossing times hard-coded in main.
ExampleTimes == <<1, 10, 100, 1000>>

\* ----------------------------------------------------- unsigned int words
int_value_type_bit_count == 32

Bits == 0 .. (int_value_type_bit_count - 1)

min_people == 1

max_people == int_value_type_bit_count - 2

SetMax(S) == CHOOSE m \in S : \A x \in S : x <= m

\* x << k on an unsigned word, for k below the word width.
Shl(x, k) == {b + k : b \in x} \cap Bits

\* The values x << k can take.  A shift by the word width or more is
\* undefined in C++: the builds either take the count modulo the width (the
\* shift instruction of x86) or produce 0 (a folded or saturating shift).
Shl_results(x, k) ==
  IF k < int_value_type_bit_count THEN {Shl(x, k)}
  ELSE {Shl(x, k % int_value_type_bit_count), {}}

\* x >> k on an unsigned word.
Shr(x, k) == {b - k : b \in {c \in x : c >= k}}

\* x ^ y
Xor(x, y) == (x \ y) \cup (y \ x)

\* x & y
And(x, y) == x \cap y

\* x - 1 modulo 2^int_value_type_bit_count: the lowest 1 bit is cleared and
\* every bit below it is set; 0 - 1 wraps around to the all-ones word.
Minus1(x) ==
  IF x = {} THEN Bits
  ELSE LET low == CHOOSE b \in x : \A c \in x : b <= c
       IN (x \ {low}) \cup {c \in Bits : c < low}

one_as_int_value_type == {0}

torch_bit == one_as_int_value_type

\* __builtin_clz of a non-zero word.
builtin_clz(x) == int_value_type_bit_count - 1 - SetMax(x)

get_leading_one_pos(state_repr) ==
  int_value_type_bit_count - 1 - builtin_clz(state_repr)

get_leading_one(state_repr) ==
  Shl(one_as_int_value_type, get_leading_one_pos(state_repr))

get_torch_crossed(state_repr) == And(state_repr, {0}) = {0}

\* Variant of validate_people_count_throws: no lower bound.
validate_people_count_throws_above_only(people_count) ==
  people_count > max_people

\* TRUE when validate_people_count throws std::invalid_argument.
validate_people_count_throws(people_count) ==
  people_count < min_people \/ people_count > max_people

\* TRUE when validate_crosser_index throws std::invalid_argument.
validate_crosser_index_throws(state_repr, crosser_index) ==
  crosser_index >= get_leading_one_pos(state_repr) - 1

\* Variant of start: the shift is one short.
start_shift_one_short(people_count) == Shl(one_as_int_value_type, people_count)

start(people_count) == Shl(one_as_int_value_type, people_count + 1)

\* Variant of end: the shift is one short.
end_shift_one_short(people_count) ==
  Minus1(Shl(one_as_int_value_type, people_count + 1))

end(people_count) == Minus1(Shl(one_as_int_value_type, people_count + 2))

\* The values end can return: for people_count = max_people the shift count
\* people_count + 2 is the word width.
end_results(people_count) ==
  IF people_count + 2 < int_value_type_bit_count THEN {end(people_count)}
  ELSE {Minus1(v) : v \in Shl_results(one_as_int_value_type, people_count + 2)}

\* Variant of after_single_crossing: the torch bit is not flipped.
after_single_crossing_torch_stays(prior_state, crosser_index) ==
  Xor(prior_state, Shl({0}, crosser_index + 1))

\* Variant of after_single_crossing: the person bit is set, not flipped.
after_single_crossing_sets_bit(prior_state, crosser_index) ==
  Xor(prior_state, torch_bit) \cup Shl({0}, crosser_index + 1)

after_single_crossing(prior_state, crosser_index) ==
  Xor(Xor(prior_state, torch_bit), Shl({0}, crosser_index + 1))

\* Variant of after_double_crossing_error: equal indices are let through.
after_double_crossing_error_no_distinct_check(prior_state, first_crosser_index, second_crosser_index) ==
  IF \/ validate_crosser_index_throws(prior_state, first_crosser_index)
     \/ validate_crosser_index_throws(prior_state, second_crosser_index)
  THEN "CrosserIndexOutOfRange"
  ELSE "none"

\* The error after_double_crossing throws, by the message it carries
\* ("crosser_index is out of range", "... should be distinct"), or "none".
\* The two range checks come before the comparison of the indices.
after_double_crossing_error(prior_state, first_crosser_index, second_crosser_index) ==
  IF \/ validate_crosser_index_throws(prior_state, first_crosser_index)
     \/ validate_crosser_index_throws(prior_state, second_crosser_index)
  THEN "CrosserIndexOutOfRange"
  ELSE IF first_crosser_index = second_crosser_index
       THEN "DuplicateCrosserIndices"
       ELSE "none"

\* TRUE when after_double_crossing throws std::invalid_argument.
after_double_crossing_throws(prior_state, first_crosser_index, second_crosser_index) ==
  after_double_crossing_error(prior_state, first_crosser_index,
                              second_crosser_index) # "none"

after_double_crossing(prior_state, first_crosser_index, second_crosser_index) ==
  Xor(Xor(Xor(prior_state, torch_bit), Shl({0}, first_crosser_index + 1)),
      Shl({0}, second_crosser_index + 1))

\* Variant of get_possible_crosser_indices: the mask is taken from the word
\* before it is shifted.
get_possible_crosser_indices_wide_mask(state_repr) ==
  LET torch_crossed == get_torch_crossed(state_repr)
      result0 == Shr(state_repr, 1)
      people_mask == Minus1(get_leading_one(state_repr))
      result1 == And(result0, people_mask)
  IN IF ~torch_crossed THEN Xor(result1, people_mask) ELSE result1

\* Variant of get_possible_crosser_indices: the mask is inverted when the
\* torch has crossed.
get_possible_crosser_indices_inverted_when_crossed(state_repr) ==
  LET torch_crossed == get_torch_crossed(state_repr)
      result0 == Shr(state_repr, 1)
      people_mask == Minus1(get_leading_one(result0))
      result1 == And(result0, people_mask)
  IN IF torch_crossed THEN Xor(result1, people_mask) ELSE result1

\* Variant of get_possible_crosser_indices: the mask is never inverted.
get_possible_crosser_indices_not_inverted(state_repr) ==
  LET result0 == Shr(state_repr, 1)
      people_mask == Minus1(get_leading_one(result0))
  IN And(result0, people_mask)

get_possible_crosser_indices(state_repr) ==
  LET torch_crossed == get_torch_crossed(state_repr)
      result0 == Shr(state_repr, 1)
      people_mask == Minus1(get_leading_one(result0))
      result1 == And(result0, people_mask)
  IN IF ~torch_crossed THEN Xor(result1, people_mask) ELSE result1

\* ------------------------------------------------------------ graph nodes
crossing_type(state_index_after_crossing, time_to_cross) ==
  [state_index_after_crossing |-> state_index_after_crossing,
   time_to_cross |-> time_to_cross]

bridge_state_type(state_repr) ==
  [state_repr |-> state_repr, possible_crossings |-> <<>>]

\* Variant of emplace_crossing: the list is replaced by the new record.
emplace_crossing_overwrite(sts, index, crossing) ==
  [sts EXCEPT ![index + 1].possible_crossings = <<crossing>>]

\* states.at(index).possible_crossings.emplace_back(crossing)
emplace_crossing(sts, index, crossing) ==
  [sts EXCEPT ![index + 1].possible_crossings = Append(@, crossing)]

\* state_to_states_index.insert_or_assign(key, value)
insert_or_assign(map, key, value) ==
  [k \in (DOMAIN map) \cup {key} |-> IF k = key THEN value ELSE map[k]]

\* Variant of new_state_index: the index of the last node already in sts.
new_state_index_of_last(sts) == Len(sts) - 1

\* The index recorded in the lookup for a configuration appended to sts.
new_state_index(sts) == Len(sts)

\* Variant of known_state_needs_connection: any other node is connected.
known_state_needs_connection_any(crossed_state_index, curr_state_index) ==
  crossed_state_index # curr_state_index

\* Variant of known_state_needs_connection: the else-if branch is missing.
known_state_needs_connection_never(crossed_state_index, curr_state_index) ==
  FALSE

\* The test of the else-if branch: an already known configuration is
\* connected only when its node index lies after the current one.
known_state_needs_connection(crossed_state_index, curr_state_index) ==
  crossed_state_index > curr_state_index

\* Variant of connection_records: both records name the crossed node.
connection_records_both_crossed(curr, crossed_state_index, time_to_cross) ==
  [at_curr |-> crossing_type(crossed_state_index, time_to_cross),
   at_crossed |-> crossing_type(crossed_state_index, time_to_cross)]

\* Variant of connection_records: the two targets are swapped.
connection_records_swapped(curr, crossed_state_index, time_to_cross) ==
  [at_curr |-> crossing_type(curr, time_to_cross),
   at_crossed |-> crossing_type(crossed_state_index, time_to_cross)]

\* The two records of a connection: the one appended to the current node
\* and the one appended to the crossed node.
connection_records(curr, crossed_state_index, time_to_cross) ==
  [at_curr |-> crossing_type(crossed_state_index, time_to_cross),
   at_crossed |-> crossing_type(curr, time_to_cross)]

\* The whole of try_add_or_connect_crossed_state, as the new values of the
\* three objects it takes by reference.
try_add_or_connect_crossed_state(sts, map, count, curr, crossed_state, time_to_cross) ==
  LET found == crossed_state \in DOMAIN map
      create_connection ==
        IF ~found THEN TRUE
        ELSE known_state_needs_connection(map[crossed_state], curr)
      crossed_state_index ==
        IF ~found THEN new_state_index(sts) ELSE map[crossed_state]
      map1 ==
        IF ~found THEN insert_or_assign(map, crossed_state, new_state_index(sts))
        ELSE map
      sts1 ==
        IF ~found THEN Append(sts, bridge_state_type(crossed_state)) ELSE sts
  IN IF ~create_connection
     THEN [states |-> sts, state_to_states_index |-> map,
           connection_count |-> count]
     ELSE LET records == connection_records(curr, crossed_state_index, time_to_cross)
          IN [states |->
                emplace_crossing(
                  emplace_crossing(sts1, curr, records.at_curr),
                  crossed_state_index, records.at_crossed),
              state_to_states_index |-> map1,
              connection_count |-> count + 1]

\* times_to_cross.at(single_crosser_index)
single_time_to_cross(times, single_crosser_index) ==
  times[single_crosser_index + 1]

\* Variant of double_time_to_cross: the faster crosser's time.
double_time_to_cross_min(times, first_crosser_index, second_crosser_index) ==
  IF times[first_crosser_index + 1] < times[second_crosser_index + 1]
  THEN times[first_crosser_index + 1]
  ELSE times[second_crosser_index + 1]

\* std::max(times_to_cross.at(first), times_to_cross.at(second))
double_time_to_cross(times, first_crosser_index, second_crosser_index) ==
  IF times[first_crosser_index + 1] < times[second_crosser_index + 1]
  THEN times[second_crosser_index + 1]
  ELSE times[first_crosser_index + 1]

\* Variant of max_possible_states_results: the shift binds before the sum.
max_possible_states_results_shift_first(n) ==
  IF n + 1 < int_value_type_bit_count - 1 THEN {2 ^ n + 1 - 2}
  ELSE {0 - 1, 0 - 2}

\* The values of (1 << people_count + 1) - 2, computed in int (as wide as
\* int_value_type).  For people_count + 1 = 31 the subtraction overflows
\* (taken here as wrapping around); for a shift count of the width or more
\* the shift is undefined: the count is taken modulo the width, or the
\* shift gives 0.
max_possible_states_results(n) ==
  IF n + 1 < int_value_type_bit_count - 1 THEN {2 ^ (n + 1) - 2}
  ELSE IF n + 1 = int_value_type_bit_count - 1
       THEN {(2 ^ (int_value_type_bit_count - 2) - 1) * 2}
       ELSE {2 ^ ((n + 1) % int_value_type_bit_count) - 2, 0 - 2}

\* TRUE when states.reserve(n) throws std::length_error: a negative int
\* converts to a size_type beyond max_size().
reserve_throws(n) == n < 0

\* Variant of worklist_has_next: the loop stops one node early.
worklist_has_next_one_early(curr, sts) == curr + 1 < Len(sts)

\* The condition of the worklist loop.
worklist_has_next(curr, sts) == curr < Len(sts)

\* ------------------------------------------------------------------ state
VARIABLES
  times_to_cross,          \* the input list of crossing times
  pc,                      \* position of main
  states,                  \* the node list
  state_to_states_index,   \* the lookup, configuration -> node index
  connection_count,
  curr_state_index,
  curr_state_copy,
  possible_crosser_indices,
  single_crosser_index,
  iterated_possible_crosser_indices,
  first_crosser_index,
  first_crosser_iterated_possible_crosser_indices,
  second_crosser_index,
  second_crosser_iterated_possible_crosser_indices,
  processed,               \* history: the node indices the loop body was entered with
  max_possible_states,     \* the capacity main reserves
  codec_call,              \* the operation of bridge_state_type a caller applies
  codec_state,             \* the configuration that caller holds
  codec_results            \* what the calls made so far returned or threw

graph == <<states, state_to_states_index, connection_count>>

single_loop == <<single_crosser_index, iterated_possible_crosser_indices>>

first_loop == <<first_crosser_index, first_crosser_iterated_possible_crosser_indices>>

second_loop == <<second_crosser_index, second_crosser_iterated_possible_crosser_indices>>

node_loop == <<curr_state_index, curr_state_copy, possible_crosser_indices, processed>>

input == <<times_to_cross, max_possible_states>>

codec == <<codec_call, codec_state, codec_results>>

vars == <<input, pc, graph, node_loop, single_loop, first_loop, second_loop, codec>>

people_count == Len(times_to_cross)

\* The lists of crossing times main is run on.
\* A list of one more than max_people crossing times.
TooManyTimes == [i \in 1 .. (max_people + 1) |-> 1]

TimesInputs ==
  {ExampleTimes, TooManyTimes}
    \cup UNION {[1 .. n -> TimeValues] : n \in 0 .. MaxPeople}

\* No call of an operation of bridge_state_type from outside main.
NoCodecCall ==
  [op |-> "none", people_count |-> 0, state_repr |-> {},
   first_crosser_index |-> 0, second_crosser_index |-> 0]

\* main has built nothing yet.
NothingBuilt ==
  /\ states = <<>>
  /\ state_to_states_index = <<>>
  /\ connection_count = 0
  /\ curr_state_index = 0
  /\ curr_state_copy = {}
  /\ possible_crosser_indices = {}
  /\ single_crosser_index = 0
  /\ iterated_possible_crosser_indices = {}
  /\ first_crosser_index = 0
  /\ first_crosser_iterated_possible_crosser_indices = {}
  /\ second_crosser_index = 0
  /\ second_crosser_iterated_possible_crosser_indices = {}
  /\ processed = <<>>

\* main starts on a list of crossing times and computes the capacity.
Init ==
  /\ times_to_cross \in TimesInputs
  /\ max_possible_states \in max_possible_states_results(Len(times_to_cross))
  /\ pc = "seed"
  /\ NothingBuilt
  /\ codec_call = NoCodecCall
  /\ codec_state = {}
  /\ codec_results = <<>>

\* One call of try_add_or_connect_crossed_state from the current node.
Connect(crossed_state, time_to_cross) ==
  LET r == try_add_or_connect_crossed_state(
             states, state_to_states_index, connection_count,
             curr_state_index, crossed_state, time_to_cross)
  IN /\ states' = r.states
     /\ state_to_states_index' = r.state_to_states_index
     /\ connection_count' = r.connection_count

\* reserve() or start() throws: the exception leaves main.
SeedThrows ==
  /\ pc = "seed"
  /\ \/ reserve_throws(max_possible_states)
     \/ validate_people_count_throws(people_count)
  /\ pc' = "thrown"
  /\ UNCHANGED <<input, codec, graph, node_loop, single_loop, first_loop, second_loop>>

\* The start and the end configuration become nodes 0 and 1.
SeedStartEnd ==
  /\ pc = "seed"
  /\ ~reserve_throws(max_possible_states)
  /\ ~validate_people_count_throws(people_count)
  /\ \E end_state \in end_results(people_count) :
     LET start_state == start(people_count)
         map1 == insert_or_assign(state_to_states_index, start_state, Len(states))
         sts1 == Append(states, bridge_state_type(start_state))
         map2 == insert_or_assign(map1, end_state, Len(sts1))
         sts2 == Append(sts1, bridge_state_type(end_state))
     IN /\ states' = sts2
        /\ state_to_states_index' = map2
  /\ connection_count' = 0
  /\ curr_state_index' = 0
  /\ pc' = "node"
  /\ UNCHANGED <<input, codec, curr_state_copy, possible_crosser_indices,
                 processed, single_loop, first_loop, second_loop>>

\* The worklist loop takes the node at curr_state_index.
BeginNode ==
  /\ pc = "node"
  /\ worklist_has_next(curr_state_index, states)
  /\ processed' = Append(processed, curr_state_index)
  /\ curr_state_copy' = states[curr_state_index + 1].state_repr
  /\ possible_crosser_indices' =
       get_possible_crosser_indices(states[curr_state_index + 1].state_repr)
  /\ single_crosser_index' = 0
  /\ iterated_possible_crosser_indices' =
       get_possible_crosser_indices(states[curr_state_index + 1].state_repr)
  /\ pc' = "single"
  /\ UNCHANGED <<input, codec, graph, curr_state_index, first_loop, second_loop>>

\* The worklist loop ends; the lookup goes out of scope.
Finish ==
  /\ pc = "node"
  /\ ~worklist_has_next(curr_state_index, states)
  /\ state_to_states_index' = <<>>
  /\ pc' = "done"
  /\ UNCHANGED <<input, codec, states, connection_count, node_loop,
                 single_loop, first_loop, second_loop>>

\* An iteration of the single-crosser loop on a 0 bit.
SingleSkip ==
  /\ pc = "single"
  /\ iterated_possible_crosser_indices # {}
  /\ 0 \notin iterated_possible_crosser_indices
  /\ single_crosser_index' = single_crosser_index + 1
  /\ iterated_possible_crosser_indices' = Shr(iterated_possible_crosser_indices, 1)
  /\ UNCHANGED <<input, codec, pc, graph, node_loop, first_loop, second_loop>>

\* An iteration of the single-crosser loop on a 1 bit.
SingleCross ==
  /\ pc = "single"
  /\ iterated_possible_crosser_indices # {}
  /\ 0 \in iterated_possible_crosser_indices
  /\ IF \/ ~(single_crosser_index < people_count)
        \/ validate_crosser_index_throws(curr_state_copy, single_crosser_index)
     THEN /\ pc' = "thrown"
          /\ UNCHANGED <<graph, single_loop>>
     ELSE /\ Connect(after_single_crossing(curr_state_copy, single_crosser_index),
                     single_time_to_cross(times_to_cross, single_crosser_index))
          /\ single_crosser_index' = single_crosser_index + 1
          /\ iterated_possible_crosser_indices' =
               Shr(iterated_possible_crosser_indices, 1)
          /\ pc' = pc
  /\ UNCHANGED <<input, codec, node_loop, first_loop, second_loop>>

\* The single-crosser loop ends; the first-crosser loop starts.
SingleDone ==
  /\ pc = "single"
  /\ iterated_possible_crosser_indices = {}
  /\ first_crosser_index' = 0
  /\ first_crosser_iterated_possible_crosser_indices' = possible_crosser_indices
  /\ pc' = "first"
  /\ UNCHANGED <<input, codec, graph, node_loop, single_loop, second_loop>>

\* An iteration of the first-crosser loop on a 0 bit.
FirstSkip ==
  /\ pc = "first"
  /\ first_crosser_iterated_possible_crosser_indices # {}
  /\ 0 \notin first_crosser_iterated_possible_crosser_indices
  /\ first_crosser_index' = first_crosser_index + 1
  /\ first_crosser_iterated_possible_crosser_indices' =
       Shr(first_crosser_iterated_possible_crosser_indices, 1)
  /\ UNCHANGED <<input, codec, pc, graph, node_loop, single_loop, second_loop>>

\* An iteration of the first-crosser loop on a 1 bit: the second-crosser
\* loop starts one past the first crosser.
FirstPick ==
  /\ pc = "first"
  /\ first_crosser_iterated_possible_crosser_indices # {}
  /\ 0 \in first_crosser_iterated_possible_crosser_indices
  /\ IF ~(first_crosser_index < people_count)
     THEN /\ pc' = "thrown"
          /\ UNCHANGED second_loop
     ELSE /\ second_crosser_index' = first_crosser_index + 1
          /\ second_crosser_iterated_possible_crosser_indices' =
               Shr(first_crosser_iterated_possible_crosser_indices, 1)
          /\ pc' = "second"
  /\ UNCHANGED <<input, codec, graph, node_loop, single_loop, first_loop>>

\* The first-crosser loop ends; the worklist index advances.
FirstDone ==
  /\ pc = "first"
  /\ first_crosser_iterated_possible_crosser_indices = {}
  /\ curr_state_index' = curr_state_index + 1
  /\ pc' = "node"
  /\ UNCHANGED <<input, codec, graph, curr_state_copy, possible_crosser_indices,
                 processed, single_loop, first_loop, second_loop>>

\* An iteration of the second-crosser loop on a 0 bit.
SecondSkip ==
  /\ pc = "second"
  /\ second_crosser_iterated_possible_crosser_indices # {}
  /\ 0 \notin second_crosser_iterated_possible_crosser_indices
  /\ second_crosser_index' = second_crosser_index + 1
  /\ second_crosser_iterated_possible_crosser_indices' =
       Shr(second_crosser_iterated_possible_crosser_indices, 1)
  /\ UNCHANGED <<input, codec, pc, graph, node_loop, single_loop, first_loop>>

\* An iteration of the second-crosser loop on a 1 bit.
DoubleCross ==
  /\ pc = "second"
  /\ second_crosser_iterated_possible_crosser_indices # {}
  /\ 0 \in second_crosser_iterated_possible_crosser_indices
  /\ IF \/ ~(second_crosser_index < people_count)
        \/ after_double_crossing_throws(curr_state_copy, first_crosser_index,
                                        second_crosser_index)
     THEN /\ pc' = "thrown"
          /\ UNCHANGED <<graph, second_loop>>
     ELSE /\ Connect(after_double_crossing(curr_state_copy, first_crosser_index,
                                           second_crosser_index),
                     double_time_to_cross(times_to_cross, first_crosser_index,
                                          second_crosser_index))
          /\ second_crosser_index' = second_crosser_index + 1
          /\ second_crosser_iterated_possible_crosser_indices' =
               Shr(second_crosser_iterated_possible_crosser_indices, 1)
          /\ pc' = pc
  /\ UNCHANGED <<input, codec, node_loop, single_loop, first_loop>>

\* The second-crosser loop ends; the first-crosser loop advances.
SecondDone ==
  /\ pc = "second"
  /\ second_crosser_iterated_possible_crosser_indices = {}
  /\ first_crosser_index' = first_crosser_index + 1
  /\ first_crosser_iterated_possible_crosser_indices' =
       Shr(first_crosser_iterated_possible_crosser_indices, 1)
  /\ pc' = "first"
  /\ UNCHANGED <<input, codec, graph, node_loop, single_loop, second_loop>>

Next ==
  \/ SeedThrows
  \/ SeedStartEnd
  \/ BeginNode
  \/ Finish
  \/ SingleSkip
  \/ SingleCross
  \/ SingleDone
  \/ FirstSkip
  \/ FirstPick
  \/ FirstDone
  \/ SecondSkip
  \/ DoubleCross
  \/ SecondDone

Spec == Init /\ [][Next]_vars

\* main runs without interruption: a step that can be taken is taken.
FairSpec == Spec /\ WF_vars(Next)

\* ------------------------------------ the operations called on their own
\* The static functions of bridge_state_type and get_possible_crosser_indices
\* are public: a caller other than main applies one of them, up to
\* MaxCodecCalls times in a row, to the configuration it holds.

\* The configurations of n people: leading one at bit n + 1, any people
\* bits, any torch bit.
WellFormedConfigs(n) == {{n + 1} \cup low : low \in SUBSET (0 .. n)}

\* Configurations of max_people people: nobody, everybody, one person at
\* either end of the index range, or all but that person on the end bank,
\* with the torch on either bank.
BoundaryConfigs ==
  LET all == 1 .. max_people
      crossed == {{}, all, {1}, {max_people}, all \ {1}, all \ {max_people}}
  IN {{max_people + 1} \cup people \cup torch :
        people \in crossed, torch \in {{}, {0}}}

CodecConfigs ==
  BoundaryConfigs \cup UNION {WellFormedConfigs(n) : n \in 1 .. MaxCodecPeople}

CodecPeopleCounts ==
  (0 .. MaxCodecPeople) \cup {max_people - 1, max_people, max_people + 1, max_people + 2}

CodecIndices == (0 .. MaxCodecPeople) \cup {max_people - 1, max_people}

CodecCall(op, n, state_repr, first, second) ==
  [op |-> op, people_count |-> n, state_repr |-> state_repr,
   first_crosser_index |-> first, second_crosser_index |-> second]

CodecCalls ==
  {CodecCall(op, n, {}, 0, 0) : op \in {"start", "end"}, n \in CodecPeopleCounts}
    \cup {CodecCall("get_possible_crosser_indices", 0, c, 0, 0) : c \in CodecConfigs}
    \cup {CodecCall("after_single_crossing", 0, c, i, 0) :
            c \in CodecConfigs, i \in CodecIndices}
    \cup {CodecCall("after_double_crossing", 0, c, i, j) :
            c \in CodecConfigs, i \in CodecIndices, j \in CodecIndices}

\* What a call gave back: a value, or an exception named by its message.
Returned(value) == [kind |-> "returned", error |-> "none", value |-> value]

Thrown(error) == [kind |-> "thrown", error |-> error, value |-> {}]

CodecInit ==
  /\ times_to_cross = <<>>
  /\ max_possible_states = 0
  /\ pc = "codec"
  /\ NothingBuilt
  /\ codec_call \in CodecCalls
  /\ codec_state = codec_call.state_repr
  /\ codec_results = <<>>

main_vars == <<input, pc, graph, node_loop, single_loop, first_loop, second_loop>>

\* The call gives back result; a returned configuration is the one the
\* caller holds from then on.
CodecGives(result, holds) ==
  /\ codec_results' = Append(codec_results, result)
  /\ codec_state' = IF result.kind = "returned" /\ holds THEN result.value
                    ELSE codec_state
  /\ UNCHANGED <<codec_call, main_vars>>

CodecStart ==
  /\ pc = "codec"
  /\ codec_call.op = "start"
  /\ Len(codec_results) < MaxCodecCalls
  /\ CodecGives(IF validate_people_count_throws(codec_call.people_count)
                THEN Thrown("PersonCountOutOfRange")
                ELSE Returned(start(codec_call.people_count)),
                TRUE)

CodecEnd ==
  /\ pc = "codec"
  /\ codec_call.op = "end"
  /\ Len(codec_results) < MaxCodecCalls
  /\ IF validate_people_count_throws(codec_call.people_count)
     THEN CodecGives(Thrown("PersonCountOutOfRange"), TRUE)
     ELSE \E value \in end_results(codec_call.people_count) :
            CodecGives(Returned(value), TRUE)

CodecSingleCrossing ==
  /\ pc = "codec"
  /\ codec_call.op = "after_single_crossing"
  /\ Len(codec_results) < MaxCodecCalls
  /\ CodecGives(IF validate_crosser_index_throws(codec_state,
                                                  codec_call.first_crosser_index)
                THEN Thrown("CrosserIndexOutOfRange")
                ELSE Returned(after_single_crossing(codec_state,
                                                    codec_call.first_crosser_index)),
                TRUE)

CodecDoubleCrossing ==
  /\ pc = "codec"
  /\ codec_call.op = "after_double_crossing"
  /\ Len(codec_results) < MaxCodecCalls
  /\ LET error == after_double_crossing_error(codec_state,
                                              codec_call.first_crosser_index,
                                              codec_call.second_crosser_index)
     IN CodecGives(IF error # "none" THEN Thrown(error)
                   ELSE Returned(after_double_crossing(
                                   codec_state, codec_call.first_crosser_index,
                                   codec_call.second_crosser_index)),
                   TRUE)

CodecPossibleCrossers ==
  /\ pc = "codec"
  /\ codec_call.op = "get_possible_crosser_indices"
  /\ Len(codec_results) < MaxCodecCalls
  /\ CodecGives(Returned(get_possible_crosser_indices(codec_state)), FALSE)

CodecNext ==
  \/ CodecStart
  \/ CodecEnd
  \/ CodecSingleCrossing
  \/ CodecDoubleCrossing
  \/ CodecPossibleCrossers

\* main is run, or an operation is called on its own.
ApiInit == Init \/ CodecInit

ApiNext == Next \/ CodecNext

ApiSpec == ApiInit /\ [][ApiNext]_vars

\* ------------------------------------------------- vocabulary of the claims
\* The claims speak of configurations as the puzzle does: who stands on
\* which bank and where the torch is.  These definitions read a word bit by
\* bit and do not use the operations of bridge_state_type.

Nodes == 0 .. (Len(states) - 1)

People == 0 .. (people_count - 1)

ConfigOf(u) == states[u + 1].state_repr

CrossingsOf(u) == states[u + 1].possible_crossings

TorchSide(config) == 0 \in config

PersonSide(config, i) == (i + 1) \in config

\* The people standing on the torch's bank.
Eligible(config) == {i \in People : PersonSide(config, i) = TorchSide(config)}

\* The configuration after the people of crossers and the torch change bank.
Crossed(config, crossers) ==
  {b \in Bits : (b \in config) # (b = 0 \/ (b - 1) \in crossers)}

\* The bit positions in which two configurations differ.
DifferingBits(c1, c2) == {b \in Bits : (b \in c1) # (b \in c2)}

\* The people whose bank differs between two configurations.
Movers(c1, c2) == {i \in People : PersonSide(c1, i) # PersonSide(c2, i)}

HasCrossing(u, v, c) ==
  \E k \in DOMAIN CrossingsOf(u) :
    /\ CrossingsOf(u)[k].state_index_after_crossing = v
    /\ CrossingsOf(u)[k].time_to_cross = c

HasCrossingTo(u, v) ==
  \E k \in DOMAIN CrossingsOf(u) :
    CrossingsOf(u)[k].state_index_after_crossing = v

\* The costs that appear in some crossing record.
RecordedTimes ==
  UNION {{CrossingsOf(u)[k].time_to_cross : k \in DOMAIN CrossingsOf(u)} : u \in Nodes}

MaxOf(a, b) == IF a >= b THEN a ELSE b

\* The lookup is in scope while the worklist loop runs.
LookupInScope == pc \in {"node", "single", "first", "second"}

\* The nodes reachable from node u along crossing records.
RECURSIVE ReachFrom(_)
ReachFrom(seen) ==
  LET more == {v \in Nodes : \E u \in seen : HasCrossingTo(u, v)} \ seen
  IN IF more = {} THEN seen ELSE ReachFrom(seen \cup more)

\* ------------------------------------------------------------------ claims

\* C1: when construction completes, for every node u and every single
\* eligible person or pair of distinct eligible people of u, the
\* configuration produced by that crossing is the configuration of some
\* node v, and u holds a crossing record to v.
C1_ClosedUnderLegalCrossings ==
  pc = "done" =>
    \A u \in Nodes :
      \A crossers \in SUBSET Eligible(ConfigOf(u)) :
        Cardinality(crossers) \in {1, 2} =>
          \E v \in Nodes :
            /\ ConfigOf(v) = Crossed(ConfigOf(u), crossers)
            /\ HasCrossingTo(u, v)

\* A completed graph with a node from which a pair can cross to a node
\* that was appended before it.
C1_Witness ==
  /\ pc = "done"
  /\ \E u \in Nodes : \E v \in Nodes :
       /\ v < u
       /\ Cardinality(Movers(ConfigOf(u), ConfigOf(v))) = 2
       /\ Movers(ConfigOf(u), ConfigOf(v)) \subseteq Eligible(ConfigOf(u))
       /\ TorchSide(ConfigOf(u)) # TorchSide(ConfigOf(v))

\* C2: after every connect-or-create step no two nodes hold the same
\* configuration, and the lookup maps each node's configuration to exactly
\* that node's index (and holds nothing else).
C2_UniqueConfigurations ==
  LookupInScope =>
    /\ \A u \in Nodes : \A v \in Nodes :
         ConfigOf(u) = ConfigOf(v) => u = v
    /\ \A u \in Nodes :
         /\ ConfigOf(u) \in DOMAIN state_to_states_index
         /\ state_to_states_index[ConfigOf(u)] = u
    /\ DOMAIN state_to_states_index = {ConfigOf(u) : u \in Nodes}

\* Steps have appended nodes and a step has connected a configuration that
\* was already in the lookup (more connections than appended nodes).
C2_Witness ==
  /\ LookupInScope
  /\ Len(states) > 2
  /\ connection_count > Len(states) - 2

\* C3: after every connect-or-create step, u holds a crossing record (v, c)
\* if and only if v holds a crossing record (u, c).
\* (Stated record by record: every record (v, c) held by u is matched by a
\* record (u, c) held by v; taken over all records this is the equivalence.)
C3_Reciprocal ==
  \A u \in Nodes : \A k \in DOMAIN CrossingsOf(u) :
    /\ CrossingsOf(u)[k].state_index_after_crossing \in Nodes
    /\ HasCrossing(CrossingsOf(u)[k].state_index_after_crossing, u,
                   CrossingsOf(u)[k].time_to_cross)

\* A crossing record exists between two nodes, neither of them seeded.
C3_Witness ==
  \E u \in Nodes : \E v \in Nodes : \E c \in RecordedTimes :
    /\ u >= 2
    /\ v >= 2
    /\ HasCrossing(u, v, c)

\* C4: at every point of construction and at completion, each node's
\* crossing list contains at most one record per target node.
C4_NoDuplicateEdge ==
  \A u \in Nodes :
    \A k1 \in DOMAIN CrossingsOf(u) : \A k2 \in DOMAIN CrossingsOf(u) :
      CrossingsOf(u)[k1].state_index_after_crossing
        = CrossingsOf(u)[k2].state_index_after_crossing => k1 = k2

\* The sweep stands on the higher-indexed endpoint of a recorded edge and
\* has gone through its single crossers, which lead back to the lower one.
C4_Witness ==
  /\ pc \in {"first", "second"}
  /\ \E v \in Nodes :
       /\ v < curr_state_index
       /\ HasCrossingTo(curr_state_index, v)
       /\ Cardinality(Movers(ConfigOf(curr_state_index), ConfigOf(v))) = 1

\* C5: no crossing record of any node names that node's own index.
C5_NoSelfLoop ==
  \A u \in Nodes : ~HasCrossingTo(u, u)

\* Records exist at a node and the configurations at both ends differ in
\* the torch bit.
C5_Witness ==
  \E u \in Nodes : \E v \in Nodes :
    /\ HasCrossingTo(u, v)
    /\ TorchSide(ConfigOf(u)) # TorchSide(ConfigOf(v))
    /\ people_count >= 2

\* C6: every crossing record (u -> v, c) carries the cost of the people who
\* moved: time[i] when the configurations differ in one person i, and
\* max(time[i], time[j]) when they differ in two people i and j.
C6_CrossingCost ==
  \A u \in Nodes : \A k \in DOMAIN CrossingsOf(u) :
    LET v == CrossingsOf(u)[k].state_index_after_crossing
        c == CrossingsOf(u)[k].time_to_cross
        moved == Movers(ConfigOf(u), ConfigOf(v))
    IN /\ (\E i \in People : moved = {i}) =>
            \A i \in moved : c = times_to_cross[i + 1]
       /\ Cardinality(moved) = 2 =>
            \A i \in moved : \A j \in moved \ {i} :
              c = MaxOf(times_to_cross[i + 1], times_to_cross[j + 1])

\* A pair has crossed whose lower-indexed member is the slower one, and a
\* single person has crossed.
C6_Witness ==
  /\ \E u \in Nodes : \E v \in Nodes :
       LET moved == Movers(ConfigOf(u), ConfigOf(v))
       IN /\ HasCrossingTo(u, v)
          /\ \E i \in moved : \E j \in moved :
               /\ i < j
               /\ times_to_cross[i + 1] > times_to_cross[j + 1]
  /\ \E u \in Nodes : \E v \in Nodes :
       /\ HasCrossingTo(u, v)
       /\ Cardinality(Movers(ConfigOf(u), ConfigOf(v))) = 1

\* C7: for every crossing record (u -> v, c) the configurations of u and v
\* differ in the torch bit and in exactly one or exactly two person bits and
\* in nothing else, and every person whose bit differs is on the torch's
\* bank in u.
C7_LegalCrossing ==
  \A u \in Nodes : \A k \in DOMAIN CrossingsOf(u) :
    LET v == CrossingsOf(u)[k].state_index_after_crossing
        moved == Movers(ConfigOf(u), ConfigOf(v))
    IN /\ v \in Nodes
       /\ TorchSide(ConfigOf(u)) # TorchSide(ConfigOf(v))
       /\ DifferingBits(ConfigOf(u), ConfigOf(v)) = {0} \cup {i + 1 : i \in moved}
       /\ Cardinality(moved) \in {1, 2}
       /\ moved \subseteq Eligible(ConfigOf(u))

\* Records exist out of a node with the torch on the start bank and out of
\* a node with the torch on the end bank, the latter with two movers.
C7_Witness ==
  /\ \E u \in Nodes : \E v \in Nodes :
       /\ HasCrossingTo(u, v)
       /\ ~TorchSide(ConfigOf(u))
       /\ u >= 2
  /\ \E u \in Nodes : \E v \in Nodes :
       /\ HasCrossingTo(u, v)
       /\ TorchSide(ConfigOf(u))
       /\ u >= 2
       /\ Cardinality(Movers(ConfigOf(u), ConfigOf(v))) = 2

\* C8 as stated: for the input [1, 10, 100, 1000] the completed graph has
\* exactly 16 nodes.
C8_ExampleHasSixteenNodes ==
  (pc = "done" /\ times_to_cross = ExampleTimes) => Len(states) = 16

\* C8 as amended: for the input [1, 10, 100, 1000] the completed graph has
\* exactly 30 nodes, the number of configurations the comment at the end of
\* main.cpp draws.
C8_ExampleHasThirtyNodes ==
  (pc = "done" /\ times_to_cross = ExampleTimes) => Len(states) = 30

\* Construction has completed on the example input.
C8_Witness ==
  /\ pc = "done"
  /\ times_to_cross = ExampleTimes
  /\ curr_state_index = Len(states)

\* C9: in the completed graph every node, the end node and the nodes first
\* discovered from it included, is reachable from the start node (index 0)
\* along crossing records.
C9_Connected ==
  pc = "done" => ReachFrom({0}) = Nodes

\* A completed graph in which the end node has appended a node.
C9_Witness ==
  /\ pc = "done"
  /\ Len(CrossingsOf(1)) > 0
  /\ CrossingsOf(1)[1].state_index_after_crossing > 1
  /\ Len(CrossingsOf(CrossingsOf(1)[1].state_index_after_crossing)) > 0
  /\ CrossingsOf(CrossingsOf(1)[1].state_index_after_crossing)[1].state_index_after_crossing = 1

\* C10: for every valid person count construction terminates; when it has,
\* the worklist index equals the length of the node list and the loop body
\* has been entered with each node index exactly once, in increasing order;
\* and the loop body is never entered with an index not yet in the list.
C10_TerminatesInOrder ==
  /\ <>(pc = "done" \/ validate_people_count_throws(people_count))
  /\ [](pc = "done" =>
          /\ curr_state_index = Len(states)
          /\ Len(processed) = Len(states)
          /\ \A k \in DOMAIN processed : processed[k] = k - 1)
  /\ [](\A k \in DOMAIN processed : processed[k] < Len(states))

\* Construction has terminated after processing nodes that were appended
\* during the sweep.
C10_Witness ==
  /\ pc = "done"
  /\ Len(processed) > 2
  /\ ~validate_people_count_throws(people_count)

\* ------------------------------------------- vocabulary of the later claims

\* The start and the end configuration of the input, bit by bit.
StartConfig == {people_count + 1}

EndConfig == 0 .. (people_count + 1)

ValidPeopleCount == people_count >= 1 /\ people_count <= max_people

\* The people of the call of try_add_or_connect_crossed_state that main is
\* about to make, if it is about to make one.
CallPending ==
  \/ pc = "single" /\ 0 \in iterated_possible_crosser_indices
  \/ pc = "second" /\ 0 \in second_crosser_iterated_possible_crosser_indices

PendingCrossers ==
  IF pc = "single" THEN {single_crosser_index}
  ELSE {first_crosser_index, second_crosser_index}

PendingTarget == Crossed(curr_state_copy, PendingCrossers)

PendingCost ==
  CHOOSE c \in {times_to_cross[i + 1] : i \in PendingCrossers} :
    \A i \in PendingCrossers : times_to_cross[i + 1] <= c

\* C11: at every point of construction index 0 holds the start
\* configuration and index 1 the end configuration; and no step removes a
\* node, changes the configuration stored at an existing index, or removes
\* or alters an existing crossing record: a step appends at most one node
\* and appends crossing records.
C11_StableNodes ==
  /\ [](pc \in {"node", "single", "first", "second", "done"} =>
          /\ Len(states) >= 2
          /\ ConfigOf(0) = StartConfig
          /\ ConfigOf(1) = EndConfig)
  /\ [][/\ Len(states') >= Len(states)
        /\ pc # "seed" => Len(states') <= Len(states) + 1
        /\ \A u \in Nodes :
             /\ states'[u + 1].state_repr = ConfigOf(u)
             /\ Len(states'[u + 1].possible_crossings) >= Len(CrossingsOf(u))
             /\ SubSeq(states'[u + 1].possible_crossings, 1, Len(CrossingsOf(u)))
                  = CrossingsOf(u)]_vars

\* Steps have appended nodes, and records to nodes that already held some.
C11_Witness ==
  /\ Len(states) > 3
  /\ \E u \in Nodes : Len(CrossingsOf(u)) >= 3

\* C17: during construction for a valid person count no precondition of
\* the codec fails: main never leaves by an exception or a failed assert,
\* every crosser index it is about to use is below people_count and passes
\* validate_crosser_index, the two indices of a double crossing are
\* distinct, and the leading one of every node's configuration is at
\* position people_count + 1.
C17_NoPreconditionFails ==
  ValidPeopleCount =>
    /\ pc # "thrown"
    /\ (pc = "single" /\ 0 \in iterated_possible_crosser_indices) =>
         /\ single_crosser_index < people_count
         /\ ~validate_crosser_index_throws(curr_state_copy, single_crosser_index)
    /\ (pc = "first" /\ 0 \in first_crosser_iterated_possible_crosser_indices) =>
         first_crosser_index < people_count
    /\ (pc = "second" /\ 0 \in second_crosser_iterated_possible_crosser_indices) =>
         /\ second_crosser_index < people_count
         /\ first_crosser_index # second_crosser_index
         /\ ~after_double_crossing_throws(curr_state_copy, first_crosser_index,
                                          second_crosser_index)
    /\ \A u \in Nodes :
         /\ (people_count + 1) \in ConfigOf(u)
         /\ \A b \in ConfigOf(u) : b <= people_count + 1

\* main is about to cross the two highest-indexed people, from a node with
\* the torch on the end bank.
C17_Witness ==
  /\ pc = "second"
  /\ 0 \in second_crosser_iterated_possible_crosser_indices
  /\ people_count >= 3
  /\ second_crosser_index = people_count - 1
  /\ first_crosser_index = people_count - 2
  /\ TorchSide(curr_state_copy)

\* C18: whenever the call main is about to make finds its target in the
\* lookup with an index <= curr_state_index (so that it takes no action),
\* that index is strictly less than curr_state_index and both records of the
\* edge between the two nodes, with the cost of this call, already exist.
C18_SkippedEdgeExists ==
  (/\ CallPending
   /\ PendingTarget \in DOMAIN state_to_states_index
   /\ state_to_states_index[PendingTarget] <= curr_state_index) =>
    /\ state_to_states_index[PendingTarget] < curr_state_index
    /\ HasCrossing(curr_state_index, state_to_states_index[PendingTarget], PendingCost)
    /\ HasCrossing(state_to_states_index[PendingTarget], curr_state_index, PendingCost)

\* main is about to make a double crossing that leads back to a node it
\* has already processed.
C18_Witness ==
  /\ CallPending
  /\ pc = "second"
  /\ PendingTarget \in DOMAIN state_to_states_index
  /\ state_to_states_index[PendingTarget] < curr_state_index
  /\ state_to_states_index[PendingTarget] >= 2

\* C19: every node of the node list, the seeded start and end nodes
\* included, has at least one eligible crosser: get_possible_crosser_indices
\* of its configuration is not 0, and somebody stands on the torch's bank.
C19_SomeoneCanCross ==
  \A u \in Nodes :
    /\ get_possible_crosser_indices(ConfigOf(u)) # {}
    /\ Eligible(ConfigOf(u)) # {}

\* The list holds a node, appended by a step, with a single eligible
\* crosser.
C19_Witness ==
  \E u \in Nodes :
    /\ u >= 2
    /\ Cardinality(Eligible(ConfigOf(u))) = 1
    /\ people_count >= 2

\* The configuration a caller gave to the operation, and its person count
\* as its leading one tells it.
GivenConfig == codec_call.state_repr

GivenPeople == 0 .. (SetMax(GivenConfig) - 2)

Called(op) == pc = "codec" /\ codec_call.op = op /\ Len(codec_results) >= 1

\* C20: for every valid person count within the explored ones the node
\* count never exceeds max_possible_states, and the completed node list
\* holds exactly 2^(people_count + 1) - 2 nodes.
C20_NodeCount ==
  (ValidPeopleCount /\ pc # "codec") =>
    /\ Len(states) <= max_possible_states
    /\ pc = "done" => Len(states) = 2 ^ (people_count + 1) - 2

\* A completed graph of three people or more fills the capacity.
C20_Witness ==
  /\ pc = "done"
  /\ people_count >= 3
  /\ Len(states) = max_possible_states

\* C12: for every well-formed configuration of N people,
\* get_possible_crosser_indices returns the mask whose bit i is set exactly
\* when person i's bank bit equals the torch bit, with no bit at position N
\* or above; for the start and the end configuration of N people it has
\* exactly N bits set.
C12_PossibleCrossers ==
  Called("get_possible_crosser_indices") =>
    /\ codec_results[1].kind = "returned"
    /\ codec_results[1].value =
         {i \in GivenPeople : PersonSide(GivenConfig, i) = TorchSide(GivenConfig)}
    /\ \A b \in codec_results[1].value : b < Cardinality(GivenPeople)
    /\ (\/ GivenConfig = {Cardinality(GivenPeople) + 1}
        \/ GivenConfig = 0 .. (Cardinality(GivenPeople) + 1)) =>
         Cardinality(codec_results[1].value) = Cardinality(GivenPeople)

\* The mask of a configuration of max_people people, torch on the start
\* bank, with people on both banks.
C12_Witness ==
  /\ Called("get_possible_crosser_indices")
  /\ Cardinality(GivenPeople) = max_people
  /\ ~TorchSide(GivenConfig)
  /\ codec_results[1].value # {}
  /\ codec_results[1].value # GivenPeople

\* C13: for every well-formed configuration s and every in-range person
\* index i, after_single_crossing applied with i twice in a row returns
\* exactly s, whichever bank person i is on.
C13_SingleCrossingTwice ==
  (/\ Called("after_single_crossing")
   /\ codec_call.first_crosser_index \in GivenPeople
   /\ Len(codec_results) = 2) =>
    /\ codec_results[1].kind = "returned"
    /\ codec_results[2].kind = "returned"
    /\ codec_results[2].value = GivenConfig
    /\ codec_state = GivenConfig

\* Two crossings in a row of a person who was not on the torch's bank.
C13_Witness ==
  /\ Called("after_single_crossing")
  /\ Len(codec_results) = 2
  /\ codec_call.first_crosser_index \in GivenPeople
  /\ PersonSide(GivenConfig, codec_call.first_crosser_index) # TorchSide(GivenConfig)
  /\ codec_results[2].kind = "returned"

\* C14: for every person count outside [1, max_people], start and end throw
\* the person-count-out-of-range error and return no configuration, and
\* main run on a list of that many times leaves before any node is appended.
C14_PersonCountRejected ==
  /\ (/\ pc = "codec"
      /\ codec_call.op \in {"start", "end"}
      /\ \/ codec_call.people_count < 1
         \/ codec_call.people_count > max_people) =>
       /\ \A k \in DOMAIN codec_results :
            codec_results[k] = Thrown("PersonCountOutOfRange")
       /\ codec_state = GivenConfig
  /\ (pc # "codec" /\ ~ValidPeopleCount) =>
       /\ pc \in {"seed", "thrown"}
       /\ states = <<>>
       /\ DOMAIN state_to_states_index = {}

\* end has been called with max_people + 1.
C14_Witness ==
  /\ Called("end")
  /\ codec_call.people_count = max_people + 1
  /\ codec_results[1].kind = "thrown"

\* C15 as stated: for every configuration and every index i,
\* after_double_crossing(state, i, i) throws the duplicate-indices error.
C15_EqualIndicesAlwaysDuplicate ==
  (/\ Called("after_double_crossing")
   /\ codec_call.first_crosser_index = codec_call.second_crosser_index) =>
    codec_results[1] = Thrown("DuplicateCrosserIndices")

\* C15 as amended: for every configuration and every index i within the
\* configuration's person range, after_double_crossing(state, i, i) throws
\* the duplicate-indices error and yields no configuration; for an index
\* out of that range it throws the index-out-of-range error instead.
C15_EqualIndicesInRangeDuplicate ==
  (/\ Called("after_double_crossing")
   /\ codec_call.first_crosser_index = codec_call.second_crosser_index) =>
    /\ codec_results[1] =
         IF codec_call.first_crosser_index \in GivenPeople
         THEN Thrown("DuplicateCrosserIndices")
         ELSE Thrown("CrosserIndexOutOfRange")
    /\ codec_state = GivenConfig

\* after_double_crossing has been called with twice the highest index of a
\* configuration of several people.
C15_Witness ==
  /\ Called("after_double_crossing")
  /\ codec_call.first_crosser_index = codec_call.second_crosser_index
  /\ codec_call.first_crosser_index = Cardinality(GivenPeople) - 1
  /\ codec_call.first_crosser_index >= 2
  /\ codec_results[1].kind = "thrown"

\* C16: for every person count in [1, max_people], max_people included,
\* start and end return distinct configurations whose highest set bit is at
\* position people_count + 1, start with the torch bit and all person bits
\* 0 and end with the torch bit and all person bits 1.
C16_StartEndConfigurations ==
  (/\ pc = "codec"
   /\ codec_call.op \in {"start", "end"}
   /\ codec_call.people_count >= 1
   /\ codec_call.people_count <= max_people
   /\ Len(codec_results) >= 1) =>
    /\ codec_results[1].kind = "returned"
    /\ codec_results[1].value # {}
    /\ SetMax(codec_results[1].value) = codec_call.people_count + 1
    /\ codec_call.op = "start" =>
         /\ \A b \in 0 .. codec_call.people_count : b \notin codec_results[1].value
         /\ \A e \in end_results(codec_call.people_count) : e # codec_results[1].value
    /\ codec_call.op = "end" =>
         /\ \A b \in 0 .. codec_call.people_count : b \in codec_results[1].value
         /\ codec_results[1].value # start(codec_call.people_count)

====
